---- MODULE Spec2Model ----
(***************************************************************************)
(* Model of subtitle_linter.py (SRT auto-fixer): the Line Balancer, the     *)
(* Block Splitter, the Duration Extender and the pipeline of fix_srt_file. *)
(*                                                                         *)
(* Text.  A text is a sequence of words.  A word is a record               *)
(*   gap   the whitespace in front of it: "none" (start of the text),      *)
(*         "sp" (one space), "sp2" (two spaces), "nl" (a line break)       *)
(*   lead  TRUE when the word starts with "..."                            *)
(*   core  the class of its lower-cased letters: "w" (no listed word),     *)
(*         "adv", "coord", "rel" (the SPLIT_BEFORE_* lists), "interj"      *)
(*         (STANDALONE_INTERJECTIONS), "hes" (HESITATION_MARKERS)          *)
(*   len   its number of characters, punctuation included                  *)
(*   syl   the syllables count_text_syllables finds in it                  *)
(*   inner the punctuation between the letters and a trailing "..."        *)
(*   tail  its last characters: "none" (a letter), "stop" ('.', '?', '!'), *)
(*         "comma", "semi", "dash" (the em-dash), "dots" ("..."),          *)
(*         "hyph" ('-')                                                    *)
(*   pause the PAUSE_WEIGHTS of its punctuation, in hundredths of a second *)
(*   hes   the hesitation markers in it                                    *)
(* A word of len 0 with gap "nl" stands for a line break that ends the     *)
(* text (a text "line1\n"); str.split() never returns it.                  *)
(***************************************************************************)
EXTENDS Integers, Sequences, FiniteSets, TLC

VARIABLES
    pc,          \* position of the run: which step comes next
    text,        \* the text handed to balance_lines_recursive
    balanced,    \* what balance_lines_recursive returned
    sub,         \* the cue handed to split_subtitle_block / extend_short_duration
    next_sub,    \* the successor handed to extend_short_duration (or NoSub)
    split_subs,  \* what split_subtitle_block returned
    extended_sub,         \* what extend_short_duration returned
    subtitles,            \* fix_srt_file: the parsed cues
    new_subtitles,        \* fix_srt_file: the cues after phase 1
    balanced_subtitles,   \* fix_srt_file: the cues after phase 2
    extended_subtitles,   \* fix_srt_file: the cues after phase 3
    final_subtitles,      \* fix_srt_file: the renumbered cues
    overlaps,             \* fix_srt_file: the pairs check_overlaps reported
    stats,                \* fix_srt_file: the statistics
    pos,                  \* the position of the running phase's loop
    run,                  \* 1 in the first run of the pipeline, 2 in a rerun
    first_final,          \* the cues the first run returned
    evaluated,            \* phase 3 in any order: the positions done, in order
    n_blocks,             \* the num_blocks handed to split_text_for_blocks
    parts,                \* the text blocks split_text_for_blocks returned
    word_list,            \* the words handed to find_best_split_point
    ratio_pct,            \* the target_ratio handed to it, in percent
    boundary              \* the split index find_best_split_point returned

partition == <<n_blocks, parts, word_list, ratio_pct, boundary>>
harness == <<text, balanced, sub, next_sub, split_subs, extended_sub, partition>>
pipeline == <<subtitles, new_subtitles, balanced_subtitles, extended_subtitles,
              final_subtitles, overlaps, stats, pos, run, first_final, evaluated>>
vars == <<pc, harness, pipeline>>

\* Configuration (subtitle_linter.py:29-36)
MAX_CHARS_PER_LINE == 42
MAX_CHARS_PER_BLOCK == 84
MAX_DURATION_MS == 8000
MIN_DURATION_MS == 833
MIN_WORDS_PER_LINE == 2
MIN_CHARS_PER_LINE == 15
MIN_CHAR_RATIO_PCT == 30
MIN_GAP_MS == 50

-----------------------------------------------------------------------------
\* Words and texts

TailLen(tail) ==
    CASE tail = "none" -> 0
      [] tail = "dots" -> 3
      [] OTHER -> 1

\* PAUSE_WEIGHTS, in hundredths of a second
PAUSE_WEIGHTS(tail) ==
    CASE tail = "comma" -> 25
      [] tail = "semi" -> 35
      [] tail = "stop" -> 60
      [] tail = "dots" -> 80
      [] tail = "dash" -> 40
      [] tail = "hyph" -> 15
      [] OTHER -> 0

HESITATION_PAUSE == 20

\* A word of `letters` letters of class `core`, followed by `tail`.
Wd(core, letters, syl, tail) ==
    [gap |-> "sp", lead |-> FALSE, core |-> core, len |-> letters + TailLen(tail),
     syl |-> syl, tail |-> tail, inner |-> "none", pause |-> PAUSE_WEIGHTS(tail),
     hes |-> IF core = "hes" THEN 1 ELSE 0]

\* The line break that ends a text whose last line is empty.
EmptyLine ==
    [gap |-> "nl", lead |-> FALSE, core |-> "w", len |-> 0, syl |-> 0,
     tail |-> "none", inner |-> "none", pause |-> 0, hes |-> 0]

GapLen(gap) ==
    CASE gap = "sp" -> 1
      [] gap = "sp2" -> 2
      [] OTHER -> 0

\* str.split(): the words of a text, the whitespace between them forgotten
Split(t) == SelectSeq(t, LAMBDA w : w.len > 0)

\* ' '.join(words): one space between the words
Join(ws) == [i \in 1..Len(ws) |-> [ws[i] EXCEPT !.gap = IF i = 1 THEN "none" ELSE "sp"]]

RECURSIVE SumLen(_)
SumLen(ws) == IF ws = <<>> THEN 0 ELSE Head(ws).len + SumLen(Tail(ws))

\* len(' '.join(words))
JoinLen(ws) == IF ws = <<>> THEN 0 ELSE SumLen(ws) + Len(ws) - 1

\* the two lines with a second line of several words that is over the cap
\* broken once more, before its last word
TwoLines_WrapSecond(l1, l2) ==
    Join(l1) \o (IF l2 = <<>> THEN <<EmptyLine>>
                 ELSE [i \in 1..Len(l2) |->
                          [l2[i] EXCEPT !.gap =
                              IF i = 1 THEN "nl"
                              ELSE IF i = Len(l2) /\ JoinLen(l2) > MAX_CHARS_PER_LINE
                                   THEN "nl" ELSE "sp"]])

\* f"{line1}\n{line2}"
TwoLines(l1, l2) ==
    Join(l1) \o (IF l2 = <<>> THEN <<EmptyLine>>
                 ELSE [i \in 1..Len(l2) |->
                          [l2[i] EXCEPT !.gap = IF i = 1 THEN "nl" ELSE "sp"]])

\* Subtitle.lines: the text cut at its line breaks
RECURSIVE Lines(_)
Lines(t) ==
    IF t = <<>> THEN << <<>> >>
    ELSE LET rest == Lines(SubSeq(t, 1, Len(t) - 1))
             w == t[Len(t)]
         IN IF w.gap = "nl"
            THEN rest \o << (IF w.len = 0 THEN <<>> ELSE <<w>>) >>
            ELSE [rest EXCEPT ![Len(rest)] = Append(@, w)]

\* len(line) of one line of Subtitle.lines
RECURSIVE LineLen(_)
LineLen(l) ==
    IF l = <<>> THEN 0
    ELSE LineLen(SubSeq(l, 1, Len(l) - 1)) + l[Len(l)].len
         + (IF Len(l) = 1 THEN 0 ELSE GapLen(l[Len(l)].gap))

-----------------------------------------------------------------------------
\* Line Balancer

\* the target ratio, in percent
get_dynamic_target_ratio(total_chars) ==
    IF total_chars < 25 THEN 50
    ELSE IF total_chars < 35 THEN 45
    ELSE IF total_chars < 50 THEN 42
    ELSE 40

\* word.lower().strip('.,!?;:') in the list `cls`
InSplitBefore(w, cls) ==
    /\ w.core = cls
    /\ w.tail \in {"none", "stop", "comma", "semi", "dots"}
    /\ w.inner \in {"none", "comma", "semi"}

\* word.lower().strip('.,!?') in the list `cls`
InSplitBeforeBlock(w, cls) ==
    /\ w.core = cls
    /\ w.tail \in {"none", "stop", "comma", "dots"}
    /\ w.inner \in {"none", "comma"}

\* is_standalone_interjection of a text of the words ws
is_standalone_interjection(ws) ==
    /\ Len(ws) = 1
    /\ ws[1].core = "interj"
    /\ ~ws[1].lead
    /\ ws[1].tail \in {"none", "stop", "comma", "dots"}
    /\ ws[1].inner \in {"none", "comma"}

\* text.endswith('.') or '?' or '!'
is_sentence_end(ws) ==
    ws # <<>> /\ ws[Len(ws)].tail \in {"stop", "dots"}

\* prev_word[-1] in SPLIT_AFTER_PUNCTUATION
EndsInSplitPunct(w) == w.tail \in {"stop", "dots", "comma", "semi", "dash"}

Abs(x) == IF x < 0 THEN -x ELSE x
Min(a, b) == IF a < b THEN a ELSE b
Max(a, b) == IF a > b THEN a ELSE b

\* the score find_best_split_point gives the boundary before words[i+1]
SplitScore(words, i, target_first_half) ==
    LET n == Len(words)
        total_chars == JoinLen(words)
        first_part == SubSeq(words, 1, i)
        second_part == SubSeq(words, i + 1, n)
        chars_first == JoinLen(first_part)
        chars_second == JoinLen(second_part)
        prev_word == words[i]
        curr_word == words[i + 1]
        punct == IF EndsInSplitPunct(prev_word)
                 THEN (IF prev_word.tail \in {"stop", "dots"} THEN -200 ELSE -100)
                 ELSE 0
        clause == IF InSplitBefore(curr_word, "adv") THEN -80
                  ELSE IF InSplitBefore(curr_word, "coord") THEN -50
                  ELSE IF InSplitBefore(curr_word, "rel") THEN -30
                  ELSE 0
        ratio == IF chars_first > 0 /\ chars_second > 0
                    /\ 100 * Min(chars_first, chars_second)
                         < MIN_CHAR_RATIO_PCT * Max(chars_first, chars_second)
                 THEN 400 ELSE 0
        short1 == IF chars_first < MIN_CHARS_PER_LINE
                     /\ total_chars > MIN_CHARS_PER_LINE * 2 THEN 300 ELSE 0
        short2 == IF chars_second < MIN_CHARS_PER_LINE
                     /\ total_chars > MIN_CHARS_PER_LINE * 2 THEN 300 ELSE 0
        few1 == IF i < MIN_WORDS_PER_LINE /\ ~is_standalone_interjection(first_part)
                   /\ n >= MIN_WORDS_PER_LINE * 2 THEN 500 ELSE 0
        few2 == IF n - i < MIN_WORDS_PER_LINE /\ ~is_standalone_interjection(second_part)
                   /\ n >= MIN_WORDS_PER_LINE * 2 THEN 500 ELSE 0
    IN Abs(chars_first - target_first_half) + punct + clause + ratio
       + short1 + short2 + few1 + few2

\* the loop of find_best_split_point with a boundary of equal score taken over
RECURSIVE ScanSplit_LastTie(_, _, _, _, _)
ScanSplit_LastTie(words, target_first_half, i, best_split, best_score) ==
    IF i > Len(words) - 1 THEN best_split
    ELSE LET score == SplitScore(words, i, target_first_half)
         IN IF best_split = 0 \/ score <= best_score
            THEN ScanSplit_LastTie(words, target_first_half, i + 1, i, score)
            ELSE ScanSplit_LastTie(words, target_first_half, i + 1, best_split, best_score)

\* the loop of find_best_split_point from boundary i on; best = 0 is None
RECURSIVE ScanSplit(_, _, _, _, _)
ScanSplit(words, target_first_half, i, best_split, best_score) ==
    IF i > Len(words) - 1 THEN best_split
    ELSE LET score == SplitScore(words, i, target_first_half)
         IN IF best_split = 0 \/ score < best_score
            THEN ScanSplit(words, target_first_half, i + 1, i, score)
            ELSE ScanSplit(words, target_first_half, i + 1, best_split, best_score)

find_best_split_point(words, target_ratio) ==
    IF Len(words) <= 1 THEN Len(words)
    ELSE LET target_first_half == (JoinLen(words) * target_ratio) \div 100
             best_split == ScanSplit(words, target_first_half, 1, 0, 0)
         IN IF best_split # 0 THEN best_split ELSE Len(words) \div 2

\* the loop that keeps the words of words2 that still fit on the line
RECURSIVE FitWords(_, _, _)
FitWords(words2, temp_line, temp_len) ==
    IF words2 = <<>> THEN temp_line
    ELSE LET w == Head(words2)
         IN IF temp_len + w.len + 1 <= MAX_CHARS_PER_LINE
            THEN FitWords(Tail(words2), Append(temp_line, w),
                          temp_len + (IF temp_line = <<>> THEN 0 ELSE 1) + w.len)
            ELSE FitWords(Tail(words2), temp_line, temp_len)

\* f"{clean_text[:mid]}-\n{clean_text[mid:]}" of a single word
HardBreak(w) ==
    << [gap |-> "none", lead |-> w.lead, core |-> "w", len |-> MAX_CHARS_PER_LINE + 1,
        syl |-> w.syl, tail |-> "hyph", inner |-> "none", pause |-> PAUSE_WEIGHTS("hyph")
                                                  + (IF w.lead THEN 80 ELSE 0),
        hes |-> 0],
       [gap |-> "nl", lead |-> FALSE, core |-> "w", len |-> w.len - MAX_CHARS_PER_LINE,
        syl |-> 0, tail |-> w.tail, inner |-> w.inner,
        pause |-> PAUSE_WEIGHTS(w.tail), hes |-> 0] >>

\* the balancer without the early return of a text that fits one line: the
\* text is cut at the best boundary whatever its length
balance_lines_recursive_NoShortReturn(t) ==
    LET words == Split(t)
        split_idx == find_best_split_point(words, get_dynamic_target_ratio(JoinLen(words)))
    IN IF words = <<>> THEN <<>>
       ELSE IF Len(words) < 2
            THEN (IF JoinLen(words) > MAX_CHARS_PER_LINE THEN HardBreak(words[1])
                  ELSE Join(words))
       ELSE TwoLines(SubSeq(words, 1, split_idx), SubSeq(words, split_idx + 1, Len(words)))

balance_lines_recursive(t) ==
    LET words == Split(t)
        clean_text == Join(words)
        split_idx == find_best_split_point(words, get_dynamic_target_ratio(JoinLen(words)))
        line1a == SubSeq(words, 1, split_idx)
        line2a == SubSeq(words, split_idx + 1, Len(words))
        fold1 == JoinLen(line1a) > MAX_CHARS_PER_LINE /\ Len(line1a) >= 2
        line1 == IF fold1 THEN SubSeq(line1a, 1, Len(line1a) \div 2) ELSE line1a
        line2b == IF fold1
                  THEN SubSeq(line1a, Len(line1a) \div 2 + 1, Len(line1a)) \o line2a
                  ELSE line2a
        line2 == IF JoinLen(line2b) > MAX_CHARS_PER_LINE /\ Len(line2b) >= 2
                 THEN FitWords(line2b, <<>>, 0) ELSE line2b
        half == Len(words) \div 2
    IN IF JoinLen(words) <= MAX_CHARS_PER_LINE THEN clean_text
       ELSE IF Len(words) < 2 THEN HardBreak(words[1])
       ELSE IF JoinLen(line1) <= MAX_CHARS_PER_LINE /\ JoinLen(line2) <= MAX_CHARS_PER_LINE
            THEN TwoLines(line1, line2)
       ELSE TwoLines(SubSeq(words, 1, half), SubSeq(words, half + 1, Len(words)))

-----------------------------------------------------------------------------
\* Cues (class Subtitle)

Subtitle(index, start_ms, end_ms, t) ==
    [index |-> index, start_ms |-> start_ms, end_ms |-> end_ms, text |-> t]

\* Subtitle.duration_sec, in milliseconds
duration_ms(s) == s.end_ms - s.start_ms

\* Subtitle.char_count: len(text.replace('\n', ''))
RECURSIVE char_count_text(_)
char_count_text(t) ==
    IF t = <<>> THEN 0
    ELSE Head(t).len + GapLen(Head(t).gap) + char_count_text(Tail(t))

char_count(s) == char_count_text(s.text)

-----------------------------------------------------------------------------
\* Ellipsis spacing

\* the word two words become when the whitespace between them is removed
Glue(a, b) ==
    IF b.len = 0 THEN a
    ELSE [gap |-> a.gap, lead |-> a.lead, core |-> "w", len |-> a.len + b.len,
          syl |-> a.syl + b.syl, tail |-> b.tail, inner |-> b.inner,
          pause |-> a.pause + b.pause, hes |-> a.hes + b.hes]

\* fix_ellipsis_spacing: whitespace after "..." and whitespace before "..."
\* is removed
RECURSIVE fix_ellipsis_spacing(_)
fix_ellipsis_spacing(t) ==
    IF Len(t) <= 1 THEN t
    ELSE LET done == fix_ellipsis_spacing(SubSeq(t, 1, Len(t) - 1))
             prev == done[Len(done)]
             w == t[Len(t)]
         IN IF w.gap # "none" /\ (prev.tail = "dots" \/ w.lead)
            THEN [done EXCEPT ![Len(done)] = Glue(prev, w)]
            ELSE Append(done, w)

\* block_text.rstrip() + "..."
AppendDots(ws) ==
    [ws EXCEPT ![Len(ws)] =
        [@ EXCEPT !.len = @ + 3, !.pause = @ + PAUSE_WEIGHTS("dots"),
                  !.inner = ws[Len(ws)].tail, !.tail = "dots"]]

\* "..." + block_text.lstrip()
PrependDots(ws) ==
    [ws EXCEPT ![1] =
        [@ EXCEPT !.len = @ + 3, !.pause = @ + PAUSE_WEIGHTS("dots"), !.lead = TRUE]]

-----------------------------------------------------------------------------
\* Block Splitter

needs_block_split(s) ==
    char_count(s) > MAX_CHARS_PER_BLOCK \/ duration_ms(s) > MAX_DURATION_MS

\* the block count with the remainder of the duration never counted
calculate_blocks_needed_NoRemainder(s) ==
    LET char_blocks == Max(1, (char_count(s) + MAX_CHARS_PER_BLOCK - 1)
                                 \div MAX_CHARS_PER_BLOCK)
        duration_blocks == Max(1, duration_ms(s) \div MAX_DURATION_MS)
    IN Max(char_blocks, duration_blocks)

calculate_blocks_needed(s) ==
    LET char_blocks == Max(1, (char_count(s) + MAX_CHARS_PER_BLOCK - 1)
                                 \div MAX_CHARS_PER_BLOCK)
        duration_blocks ==
            Max(1, duration_ms(s) \div MAX_DURATION_MS
                   + (IF duration_ms(s) % MAX_DURATION_MS > 500 THEN 1 ELSE 0))
    IN Max(char_blocks, duration_blocks)

\* the loop of split_text_for_blocks with a block closed when min_tail words
\* remain, the word at the boundary lost unless keep
RECURSIVE BlockLoopVariant(_, _, _, _, _, _, _, _, _, _)
BlockLoopVariant(min_tail, keep, words, i, blocks, current_words, current_chars,
                 blocks_remaining, tn, td) ==
    IF i > Len(words)
    THEN (IF current_words # <<>> THEN Append(blocks, current_words) ELSE blocks)
    ELSE LET word == words[i]
             word_chars == word.len + (IF current_words # <<>> THEN 1 ELSE 0)
             over == /\ 10 * td * (current_chars + word_chars) > 11 * tn
                     /\ blocks_remaining > 1
                     /\ Len(current_words) >= MIN_WORDS_PER_LINE
             should_split ==
                 \/ current_words # <<>>
                    /\ EndsInSplitPunct(current_words[Len(current_words)])
                 \/ InSplitBeforeBlock(word, "adv")
                 \/ InSplitBeforeBlock(word, "coord")
                 \/ current_chars * td > tn
             close == over /\ should_split /\ Len(words) - i + 1 >= min_tail
         IN IF close
            THEN BlockLoopVariant(min_tail, keep, words, i + 1,
                                  Append(blocks, current_words),
                                  IF keep THEN <<word>> ELSE <<>>,
                                  IF keep THEN word_chars ELSE 0,
                                  blocks_remaining - 1,
                                  IF blocks_remaining - 1 > 0
                                  THEN JoinLen(SubSeq(words, i, Len(words))) ELSE tn,
                                  IF blocks_remaining - 1 > 0
                                  THEN blocks_remaining - 1 ELSE td)
            ELSE BlockLoopVariant(min_tail, keep, words, i + 1, blocks,
                                  Append(current_words, word),
                                  current_chars + word_chars, blocks_remaining, tn, td)

\* the loop losing the word at which it closes a block
BlockLoop_DropBoundaryWord(words, i, blocks, current_words, current_chars, blocks_remaining, tn, td) ==
    BlockLoopVariant(MIN_WORDS_PER_LINE, FALSE, words, i, blocks, current_words,
                     current_chars, blocks_remaining, tn, td)

\* the loop closing a block when a single word remains
BlockLoop_NoTailMinimum(words, i, blocks, current_words, current_chars, blocks_remaining, tn, td) ==
    BlockLoopVariant(1, TRUE, words, i, blocks, current_words, current_chars,
                     blocks_remaining, tn, td)

\* the loop of split_text_for_blocks from words[i] on; target_per_block is
\* the fraction tn / td
RECURSIVE BlockLoop(_, _, _, _, _, _, _, _)
BlockLoop(words, i, blocks, current_words, current_chars, blocks_remaining, tn, td) ==
    IF i > Len(words)
    THEN (IF current_words # <<>> THEN Append(blocks, current_words) ELSE blocks)
    ELSE LET word == words[i]
             word_chars == word.len + (IF current_words # <<>> THEN 1 ELSE 0)
             words_remaining == Len(words) - i + 1
             over == /\ 10 * td * (current_chars + word_chars) > 11 * tn
                     /\ blocks_remaining > 1
                     /\ Len(current_words) >= MIN_WORDS_PER_LINE
             should_split ==
                 \/ current_words # <<>>
                    /\ EndsInSplitPunct(current_words[Len(current_words)])
                 \/ InSplitBeforeBlock(word, "adv")
                 \/ InSplitBeforeBlock(word, "coord")
                 \/ current_chars * td > tn
             close == over /\ should_split /\ words_remaining >= MIN_WORDS_PER_LINE
             remaining_chars == JoinLen(SubSeq(words, i, Len(words)))
         IN IF close
            THEN BlockLoop(words, i + 1, Append(blocks, current_words), <<word>>,
                           word_chars, blocks_remaining - 1,
                           IF blocks_remaining - 1 > 0 THEN remaining_chars ELSE tn,
                           IF blocks_remaining - 1 > 0 THEN blocks_remaining - 1 ELSE td)
            ELSE BlockLoop(words, i + 1, blocks, Append(current_words, word),
                           current_chars + word_chars, blocks_remaining, tn, td)

\* the blocks, each the list of its words
split_text_for_blocks(t, num_blocks) ==
    LET words == Split(t)
    IN IF num_blocks <= 1 \/ Len(words) <= 1 THEN <<words>>
       ELSE BlockLoop(words, 1, <<>>, <<>>, 0, num_blocks, JoinLen(words), num_blocks)

RECURSIVE SumSyl(_)
SumSyl(ws) == IF ws = <<>> THEN 0 ELSE Head(ws).syl + SumSyl(Tail(ws))

\* estimate_punctuation_pauses(text) + count_hesitation_markers(text) *
\* HESITATION_PAUSE, in hundredths of a second
RECURSIVE PauseTime(_)
PauseTime(ws) ==
    IF ws = <<>> THEN 0
    ELSE Head(ws).pause + Head(ws).hes * HESITATION_PAUSE + PauseTime(Tail(ws))

RECURSIVE Flatten(_)
Flatten(bs) == IF bs = <<>> THEN <<>> ELSE Head(bs) \o Flatten(Tail(bs))

\* int(x) of the float x that approximates num / den (num >= 0, den > 0).
\* The float operations round, so where num / den is a whole number k the
\* computed x may lie just below k and int(x) be k - 1; elsewhere int(x) is
\* the floor.  The set of the values int(x) may have.
IntOfQuotient(num, den) ==
    IF num > 0 /\ num % den = 0 THEN {num \div den - 1, num \div den}
    ELSE {num \div den}

\* all sequences that take one element of each set of a sequence of sets
RECURSIVE Choices(_)
Choices(sets) ==
    IF sets = <<>> THEN {<<>>}
    ELSE {<<x>> \o r : x \in Head(sets), r \in Choices(Tail(sets))}

\* the values int(total_duration_ms * combined_ratio) may have
calculate_syllable_weighted_duration(block, total_text, total_duration_ms) ==
    LET text_syllables == SumSyl(block)
        total_syllables == IF SumSyl(total_text) = 0 THEN 1 ELSE SumSyl(total_text)
        text_chars == SumLen(block)
        total_chars == IF SumLen(total_text) = 0 THEN 1 ELSE SumLen(total_text)
    IN IntOfQuotient(
           total_duration_ms
             * (7 * text_syllables * total_chars + 3 * text_chars * total_syllables),
           10 * total_syllables * total_chars)

\* the values the pause-adjusted duration may have
calculate_pause_adjusted_duration(block, base_duration_ms, total_text, total_duration_ms) ==
    LET total_pause_time == PauseTime(total_text)
        segment_pause_time == PauseTime(block)
    IN IF total_pause_time > 0
       THEN {base_duration_ms + pause_duration_ms \div 2 :
                pause_duration_ms \in IntOfQuotient(total_duration_ms * segment_pause_time,
                                                    5 * total_pause_time)}
       ELSE {base_duration_ms}

RECURSIVE SumSeq(_)
SumSeq(s) == IF s = <<>> THEN 0 ELSE Head(s) + SumSeq(Tail(s))

\* [int(d * scale) for d in adjusted_durations]: the vectors it may be
Rescale(adjusted, total_duration) ==
    LET total_adjusted == SumSeq(adjusted)
    IN IF total_adjusted > 0 /\ total_adjusted # total_duration
       THEN Choices([i \in 1..Len(adjusted) |->
                        IntOfQuotient(adjusted[i] * total_duration, total_adjusted)])
       ELSE {adjusted}

\* the vectors of block durations after the pause adjustment and the
\* rescaling
AdjustedDurations(text_blocks, total_duration) ==
    LET total_text == Flatten(text_blocks)
        n == Len(text_blocks)
        raw_durations ==
            Choices([i \in 1..n |->
                calculate_syllable_weighted_duration(text_blocks[i], total_text,
                                                     total_duration)])
        adjusted_durations(raw) ==
            Choices([i \in 1..n |->
                calculate_pause_adjusted_duration(text_blocks[i], raw[i], total_text,
                                                  total_duration)])
    IN UNION {UNION {Rescale(adjusted, total_duration) :
                        adjusted \in adjusted_durations(raw)} :
                 raw \in raw_durations}

\* the ellipsis marking with "..." put in front of every block but the first
BlockText_AlwaysLead(text_blocks, i) ==
    LET n == Len(text_blocks)
        a == IF i < n /\ ~is_sentence_end(text_blocks[i])
             THEN AppendDots(text_blocks[i]) ELSE text_blocks[i]
        b == IF i > 1 THEN PrependDots(a) ELSE a
    IN fix_ellipsis_spacing(Join(b))

\* the text of block i: the ellipses added, then fix_ellipsis_spacing
BlockText(text_blocks, i) ==
    LET n == Len(text_blocks)
        a == IF i < n /\ ~is_sentence_end(text_blocks[i])
             THEN AppendDots(text_blocks[i]) ELSE text_blocks[i]
        b == IF i > 1 /\ ~is_sentence_end(text_blocks[i - 1])
             THEN PrependDots(a) ELSE a
    IN fix_ellipsis_spacing(Join(b))

\* LayOut with the last block's end left as computed (not forced to the
\* cue's end)
RECURSIVE LayOutUnforced(_, _, _, _, _, _)
LayOutUnforced(s, text_blocks, durations, i, current_start, new_subs) ==
    IF i > Len(text_blocks) THEN new_subs
    ELSE LET duration == Max(durations[i], MIN_DURATION_MS)
             computed_end == current_start + duration
             current_end == IF i < Len(text_blocks) /\ computed_end > s.end_ms
                            THEN s.end_ms ELSE computed_end
         IN LayOutUnforced(s, text_blocks, durations, i + 1, current_end,
                           Append(new_subs,
                                  Subtitle(0, current_start, current_end,
                                           BlockText(text_blocks, i))))

\* LayOut with the clamp of a non-final block's end left out
RECURSIVE LayOutUnclamped(_, _, _, _, _, _)
LayOutUnclamped(s, text_blocks, durations, i, current_start, new_subs) ==
    IF i > Len(text_blocks) THEN new_subs
    ELSE LET duration == Max(durations[i], MIN_DURATION_MS)
             current_end == IF i = Len(text_blocks) THEN s.end_ms
                            ELSE current_start + duration
         IN LayOutUnclamped(s, text_blocks, durations, i + 1, current_end,
                            Append(new_subs,
                                   Subtitle(0, current_start, current_end,
                                            BlockText(text_blocks, i))))

\* the timing loop of split_subtitle_block from block i on
RECURSIVE LayOut(_, _, _, _, _, _)
LayOut(s, text_blocks, durations, i, current_start, new_subs) ==
    IF i > Len(text_blocks) THEN new_subs
    ELSE LET duration == Max(durations[i], MIN_DURATION_MS)
             computed_end == current_start + duration
             current_end == IF i = Len(text_blocks) THEN s.end_ms
                            ELSE IF computed_end > s.end_ms THEN s.end_ms
                            ELSE computed_end
         IN LayOut(s, text_blocks, durations, i + 1, current_end,
                   Append(new_subs,
                          Subtitle(0, current_start, current_end,
                                   BlockText(text_blocks, i))))

\* split_subtitle_block without the early return for a single block
split_subtitle_block_NoSingleGuard(s) ==
    LET text_blocks == split_text_for_blocks(s.text, calculate_blocks_needed(s))
    IN IF ~needs_block_split(s) THEN {<<s>>}
       ELSE {LayOut(s, text_blocks, durations, 1, s.start_ms, <<>>) :
                durations \in AdjustedDurations(text_blocks, s.end_ms - s.start_ms)}

\* the lists of cues split_subtitle_block(s) may return: one list, unless a
\* block duration falls on a whole millisecond (see IntOfQuotient)
split_subtitle_block(s) ==
    LET text_blocks == split_text_for_blocks(s.text, calculate_blocks_needed(s))
    IN IF ~needs_block_split(s) THEN {<<s>>}
       ELSE IF Len(text_blocks) = 1 THEN {<<s>>}
       ELSE {LayOut(s, text_blocks, durations, 1, s.start_ms, <<>>) :
                durations \in AdjustedDurations(text_blocks, s.end_ms - s.start_ms)}

-----------------------------------------------------------------------------
\* Duration Extender

\* extend_short_duration with the clamp at the next cue left out
extend_short_duration_NoClamp(s, nxt) ==
    IF s.end_ms - s.start_ms >= MIN_DURATION_MS THEN s
    ELSE [s EXCEPT !.end_ms = s.start_ms + MIN_DURATION_MS]

\* extend_short_duration with the gap tolerance left out of max_end
extend_short_duration_NoGap(s, nxt) ==
    LET new_end == s.start_ms + MIN_DURATION_MS
        max_end == nxt[1].start_ms
    IN IF s.end_ms - s.start_ms >= MIN_DURATION_MS THEN s
       ELSE IF nxt # <<>> /\ new_end > max_end
            THEN (IF max_end <= s.end_ms THEN s ELSE [s EXCEPT !.end_ms = max_end])
       ELSE [s EXCEPT !.end_ms = new_end]

\* extend_short_duration with max_end taken from the end of the next cue
extend_short_duration_PastNext(s, nxt) ==
    LET new_end == s.start_ms + MIN_DURATION_MS
        max_end == nxt[1].end_ms - MIN_GAP_MS
    IN IF s.end_ms - s.start_ms >= MIN_DURATION_MS THEN s
       ELSE IF nxt # <<>> /\ new_end > max_end
            THEN (IF max_end <= s.end_ms THEN s ELSE [s EXCEPT !.end_ms = max_end])
       ELSE [s EXCEPT !.end_ms = new_end]

\* extend_short_duration clamping to max_end even when that is not after the
\* current end
extend_short_duration_ClampBelowEnd(s, nxt) ==
    LET new_end == s.start_ms + MIN_DURATION_MS
        max_end == nxt[1].start_ms - MIN_GAP_MS
    IN IF s.end_ms - s.start_ms >= MIN_DURATION_MS THEN s
       ELSE IF nxt # <<>> /\ new_end > max_end THEN [s EXCEPT !.end_ms = max_end]
       ELSE [s EXCEPT !.end_ms = new_end]

\* next_sub is <<>> (None) or <<the next cue>>
extend_short_duration(s, nxt) ==
    LET current_duration == s.end_ms - s.start_ms
        needed_extension == MIN_DURATION_MS - current_duration
        new_end == s.end_ms + needed_extension
        max_end == nxt[1].start_ms - MIN_GAP_MS
    IN IF current_duration >= MIN_DURATION_MS THEN s
       ELSE IF nxt # <<>> /\ new_end > max_end
            THEN (IF max_end <= s.end_ms THEN s ELSE [s EXCEPT !.end_ms = max_end])
       ELSE [s EXCEPT !.end_ms = new_end]

-----------------------------------------------------------------------------
\* Line Balancer phase, renumbering, overlap detection

fix_line_lengths(s) ==
    [s EXCEPT !.text = fix_ellipsis_spacing(balance_lines_recursive(s.text))]

\* renumber_subtitles that leaves every index as it is
renumber_subtitles_KeepIndex(ss) == ss

renumber_subtitles(ss) == [k \in 1..Len(ss) |-> [ss[k] EXCEPT !.index = k]]

\* the loop of check_overlaps, reporting cues that touch as well
RECURSIVE OverlapScan_Touching(_, _, _)
OverlapScan_Touching(ss, k, found) ==
    IF k > Len(ss) - 1 THEN found
    ELSE OverlapScan_Touching(ss, k + 1,
                              IF ss[k].end_ms >= ss[k + 1].start_ms
                              THEN Append(found, <<ss[k].index, ss[k + 1].index>>)
                              ELSE found)

\* the loop of check_overlaps from position k on
RECURSIVE OverlapScan(_, _, _)
OverlapScan(ss, k, found) ==
    IF k > Len(ss) - 1 THEN found
    ELSE OverlapScan(ss, k + 1,
                     IF ss[k].end_ms > ss[k + 1].start_ms
                     THEN Append(found, <<ss[k].index, ss[k + 1].index>>)
                     ELSE found)

check_overlaps(ss) == OverlapScan(ss, 1, <<>>)

-----------------------------------------------------------------------------
\* The SRT file: what write_srt writes and parse_srt reads back

\* a timestamp HH:MM:SS,mmm as its four numbers; the hours take more than two
\* digits from 100 hours on
ms_to_timestamp(ms) ==
    [h |-> ms \div 3600000, m |-> (ms % 3600000) \div 60000,
     s |-> (ms % 60000) \div 1000, ms |-> ms % 1000]

timestamp_to_ms(ts) == ts.h * 3600000 + ts.m * 60000 + ts.s * 1000 + ts.ms

\* Subtitle.to_srt: the block of one cue
to_srt(s) ==
    [index |-> s.index, start |-> ms_to_timestamp(s.start_ms),
     end |-> ms_to_timestamp(s.end_ms), text |-> s.text]

write_srt(ss) == [k \in 1..Len(ss) |-> to_srt(ss[k])]

\* block.strip() on the text of a block: a trailing line break goes
StripBlock(t) ==
    IF t # <<>> /\ t[Len(t)] = EmptyLine THEN SubSeq(t, 1, Len(t) - 1) ELSE t

\* a block is read when it has a text line and its timestamps have two-digit
\* hours
Readable(b) == StripBlock(b.text) # <<>> /\ b.start.h < 100 /\ b.end.h < 100

RECURSIVE parse_srt(_)
parse_srt(blocks) ==
    IF blocks = <<>> THEN <<>>
    ELSE LET b == Head(blocks)
         IN (IF Readable(b)
             THEN <<Subtitle(b.index, timestamp_to_ms(b.start), timestamp_to_ms(b.end),
                             StripBlock(b.text))>>
             ELSE <<>>) \o parse_srt(Tail(blocks))

-----------------------------------------------------------------------------
\* Inputs of the Line Balancer

MaxWords == 4

w4 == Wd("w", 4, 1, "none")
w8stop == Wd("w", 8, 2, "stop")
but == Wd("adv", 3, 1, "none")
yeah == Wd("interj", 4, 1, "none")
w20 == Wd("w", 20, 3, "none")
w30 == Wd("w", 30, 4, "none")
w43 == Wd("w", 43, 5, "none")

BalanceVocabulary == {w4, w8stop, but, yeah, w20, w30, w43}

WordSeqs(V, n) == UNION {[1..k -> V] : k \in 1..n}

\* the whitespace of an input text: single spaces, a line break before the
\* second word, or two spaces before the last word
Layouts == {"spaces", "break", "wide"}

Layout(ws, layout) ==
    [i \in 1..Len(ws) |->
        [ws[i] EXCEPT !.gap =
            IF i = 1 THEN "none"
            ELSE IF layout = "break" /\ i = 2 THEN "nl"
            ELSE IF layout = "wide" /\ i = Len(ws) THEN "sp2"
            ELSE "sp"]]

NoText == <<>>
NoSub == <<>>

NoStats ==
    [original_count |-> 0, final_count |-> 0, blocks_split |-> 0, lines_balanced |-> 0,
     durations_extended |-> 0, overlaps_found |-> 0]

\* the pipeline is not run
PipelineIdle ==
    /\ subtitles = <<>>
    /\ new_subtitles = <<>>
    /\ balanced_subtitles = <<>>
    /\ extended_subtitles = <<>>
    /\ final_subtitles = <<>>
    /\ overlaps = <<>>
    /\ stats = NoStats
    /\ pos = 0
    /\ run = 0
    /\ first_final = <<>>
    /\ evaluated = <<>>

\* neither split_text_for_blocks nor find_best_split_point is applied alone
PartitionIdle ==
    /\ n_blocks = 0
    /\ parts = <<>>
    /\ word_list = <<>>
    /\ ratio_pct = 0
    /\ boundary = 0

\* no single function is applied
HarnessIdle ==
    /\ text = NoText
    /\ balanced = NoText
    /\ sub = Subtitle(0, 0, 0, NoText)
    /\ next_sub = NoSub
    /\ split_subs = <<>>
    /\ extended_sub = Subtitle(0, 0, 0, NoText)
    /\ PartitionIdle

InitBalance ==
    /\ pc = "balance"
    /\ \E ws \in WordSeqs(BalanceVocabulary, MaxWords), layout \in Layouts :
          text = Layout(ws, layout)
    /\ balanced = NoText
    /\ sub = Subtitle(0, 0, 0, NoText)
    /\ next_sub = NoSub
    /\ split_subs = <<>>
    /\ extended_sub = Subtitle(0, 0, 0, NoText)
    /\ PartitionIdle
    /\ PipelineIdle

\* balanced_text = balance_lines_recursive(sub.text)
Balance ==
    /\ pc = "balance"
    /\ balanced' = balance_lines_recursive(text)
    /\ pc' = "balanced"
    /\ UNCHANGED <<text, sub, next_sub, split_subs, extended_sub, partition, pipeline>>

NextBalance == Balance

SpecBalance == InitBalance /\ [][NextBalance]_vars

-----------------------------------------------------------------------------
\* Inputs of the Block Splitter

MaxSplitWords == 6

and == Wd("coord", 3, 1, "none")
w90 == Wd("w", 90, 5, "none")

SplitVocabulary == {w4, w8stop, and, w30}

\* start times and durations of the input cues, in milliseconds
Starts == {0, 1000}
Durations == {800, 1000, 9000, 20000}

InitSplit ==
    /\ pc = "split"
    /\ \E ws \in WordSeqs(SplitVocabulary, MaxSplitWords) \cup {<<>>, <<w90>>},
          layout \in {"spaces", "break"}, start \in Starts, d \in Durations :
          sub = Subtitle(1, start, start + d, Layout(ws, layout))
    /\ text = NoText
    /\ balanced = NoText
    /\ next_sub = NoSub
    /\ split_subs = <<>>
    /\ extended_sub = Subtitle(0, 0, 0, NoText)
    /\ PartitionIdle
    /\ PipelineIdle

\* split_subs = split_subtitle_block(sub)
SplitBlock ==
    /\ pc = "split"
    /\ split_subs' \in split_subtitle_block(sub)
    /\ pc' = "split_done"
    /\ UNCHANGED <<text, balanced, sub, next_sub, extended_sub, partition, pipeline>>

NextSplit == SplitBlock

SpecSplit == InitSplit /\ [][NextSplit]_vars

-----------------------------------------------------------------------------
\* split_text_for_blocks applied alone (SpecPartition)

MaxBlocks == 3

InitPartition ==
    /\ pc = "partition"
    /\ \E ws \in WordSeqs(SplitVocabulary, MaxSplitWords) \cup {<<>>},
          layout \in {"spaces", "break"} : text = Layout(ws, layout)
    /\ n_blocks \in 1..MaxBlocks
    /\ parts = <<>>
    /\ word_list = <<>>
    /\ ratio_pct = 0
    /\ boundary = 0
    /\ balanced = NoText
    /\ sub = Subtitle(0, 0, 0, NoText)
    /\ next_sub = NoSub
    /\ split_subs = <<>>
    /\ extended_sub = Subtitle(0, 0, 0, NoText)
    /\ PipelineIdle

\* parts = split_text_for_blocks(text, n_blocks)
Partition ==
    /\ pc = "partition"
    /\ parts' = split_text_for_blocks(text, n_blocks)
    /\ pc' = "partitioned"
    /\ UNCHANGED <<text, balanced, sub, next_sub, split_subs, extended_sub,
                   n_blocks, word_list, ratio_pct, boundary, pipeline>>

NextPartition == Partition

SpecPartition == InitPartition /\ [][NextPartition]_vars

-----------------------------------------------------------------------------
\* fix_line_lengths applied alone (SpecFix)

w20dots == Wd("w", 20, 3, "dots")
dots_w20 == PrependDots(<<w20>>)[1]

EllipsisVocabulary == {w4, w20, w30, w20dots, dots_w20}

InitFix ==
    /\ pc = "fix"
    /\ \E ws \in WordSeqs(EllipsisVocabulary, MaxWords), layout \in Layouts :
          sub = Subtitle(1, 0, 3000, Layout(ws, layout))
    /\ text = NoText
    /\ balanced = NoText
    /\ next_sub = NoSub
    /\ split_subs = <<>>
    /\ extended_sub = Subtitle(0, 0, 0, NoText)
    /\ PartitionIdle
    /\ PipelineIdle

\* fixed_sub = fix_line_lengths(sub); balanced is its text
FixLines ==
    /\ pc = "fix"
    /\ balanced' = fix_line_lengths(sub).text
    /\ pc' = "fixed"
    /\ UNCHANGED <<text, sub, next_sub, split_subs, extended_sub, partition, pipeline>>

NextFix == FixLines

SpecFix == InitFix /\ [][NextFix]_vars

-----------------------------------------------------------------------------
\* calculate_blocks_needed applied alone (SpecCount)

MaxCountWords == 3

\* durations around the multiples of MAX_DURATION_SEC, in milliseconds
CountDurations ==
    {1, 800, 7999, 8000, 8001, 8200, 8500, 8501, 9000, 16000, 16400, 16500, 16501, 24600}

InitCount ==
    /\ pc = "count"
    /\ \E ws \in WordSeqs(SplitVocabulary, MaxCountWords) \cup {<<w90>>},
          layout \in {"spaces", "break"}, start \in Starts, d \in CountDurations :
          sub = Subtitle(1, start, start + d, Layout(ws, layout))
    /\ text = NoText
    /\ balanced = NoText
    /\ next_sub = NoSub
    /\ split_subs = <<>>
    /\ extended_sub = Subtitle(0, 0, 0, NoText)
    /\ PartitionIdle
    /\ PipelineIdle

\* num_blocks = calculate_blocks_needed(sub)
CountBlocks ==
    /\ pc = "count"
    /\ n_blocks' = calculate_blocks_needed(sub)
    /\ pc' = "counted"
    /\ UNCHANGED <<text, balanced, sub, next_sub, split_subs, extended_sub,
                   parts, word_list, ratio_pct, boundary, pipeline>>

NextCount == CountBlocks

SpecCount == InitCount /\ [][NextCount]_vars

-----------------------------------------------------------------------------
\* find_best_split_point applied alone (SpecBoundary)

\* the ratios get_dynamic_target_ratio returns, in percent
TargetRatios == {get_dynamic_target_ratio(c) : c \in {0, 25, 35, 50}}

InitBoundary ==
    /\ pc = "boundary"
    /\ \E ws \in WordSeqs(BalanceVocabulary, MaxWords) : word_list = Join(ws)
    /\ ratio_pct \in TargetRatios
    /\ boundary = 0
    /\ n_blocks = 0
    /\ parts = <<>>
    /\ text = NoText
    /\ balanced = NoText
    /\ sub = Subtitle(0, 0, 0, NoText)
    /\ next_sub = NoSub
    /\ split_subs = <<>>
    /\ extended_sub = Subtitle(0, 0, 0, NoText)
    /\ PipelineIdle

\* split_idx = find_best_split_point(words, target_ratio)
Boundary ==
    /\ pc = "boundary"
    /\ boundary' = find_best_split_point(word_list, ratio_pct)
    /\ pc' = "boundary_found"
    /\ UNCHANGED <<text, balanced, sub, next_sub, split_subs, extended_sub,
                   n_blocks, parts, word_list, ratio_pct, pipeline>>

NextBoundary == Boundary

SpecBoundary == InitBoundary /\ [][NextBoundary]_vars

-----------------------------------------------------------------------------
\* Inputs of the Duration Extender

ShortDurations == {100, 500, 800, 832, 833, 834, 2000}

\* where the next cue starts, counted from the start of the cue
NextOffsets == {300, 550, 600, 850, 882, 883, 884, 2000}

InitExtend ==
    /\ pc = "extend"
    /\ \E start \in Starts, d \in ShortDurations :
          sub = Subtitle(1, start, start + d, Layout(<<w4, w4>>, "spaces"))
    /\ \E off \in NextOffsets :
          next_sub \in {NoSub,
                        <<Subtitle(2, sub.start_ms + off, sub.start_ms + off + 1000,
                                   Layout(<<w4>>, "spaces"))>>}
    /\ text = NoText
    /\ balanced = NoText
    /\ split_subs = <<>>
    /\ extended_sub = Subtitle(0, 0, 0, NoText)
    /\ PartitionIdle
    /\ PipelineIdle

\* extended_sub = extend_short_duration(sub, next_sub)
Extend ==
    /\ pc = "extend"
    /\ extended_sub' = extend_short_duration(sub, next_sub)
    /\ pc' = "extended"
    /\ UNCHANGED <<text, balanced, sub, next_sub, split_subs, partition, pipeline>>

NextExtend == Extend

SpecExtend == InitExtend /\ [][NextExtend]_vars

\* every line of a text has at most MAX_CHARS_PER_LINE characters
LinesFit(t) ==
    \A i \in 1..Len(Lines(t)) : LineLen(Lines(t)[i]) <= MAX_CHARS_PER_LINE

\* the text with every line break replaced by one space
ReplaceBreaks(t) ==
    [i \in 1..Len(t) |-> [t[i] EXCEPT !.gap = IF @ = "nl" THEN "sp" ELSE @]]

\* the whitespace-normalized text is a single word longer than the cap
SingleLongWord(t) ==
    Len(Split(t)) = 1 /\ JoinLen(Split(t)) > MAX_CHARS_PER_LINE

\* some boundary between two words leaves both sides within the cap
HasFittingBoundary(t) ==
    \E i \in 1..(Len(Split(t)) - 1) :
        /\ JoinLen(SubSeq(Split(t), 1, i)) <= MAX_CHARS_PER_LINE
        /\ JoinLen(SubSeq(Split(t), i + 1, Len(Split(t)))) <= MAX_CHARS_PER_LINE

\* C1: every line of the text returned by balance_lines_recursive has at most
\* 42 characters, unless the normalized input is a single word longer than 42
\* characters.
C1_LineLengthInvariant ==
    (pc = "balanced" /\ ~SingleLongWord(text)) => LinesFit(balanced)

C19_ShortTextUnsplit ==
    (pc = "balanced" /\ JoinLen(Split(text)) <= MAX_CHARS_PER_LINE)
    => /\ balanced = Join(Split(text))
       /\ Len(Lines(balanced)) = 1
       /\ balance_lines_recursive(balanced) = balanced

\* a short text of several words with a line break or a double space in it,
\* returned on one line
C19_Witness ==
    /\ pc = "balanced"
    /\ Len(Split(text)) >= 3
    /\ \E k \in 1..Len(text) : text[k].gap \in {"nl", "sp2"}
    /\ JoinLen(Split(text)) <= MAX_CHARS_PER_LINE
    /\ JoinLen(Split(text)) > MAX_CHARS_PER_LINE \div 2
    /\ balanced = Join(Split(text))

\* the number of line breaks in a text
LineBreaks(t) == Cardinality({k \in 1..Len(t) : t[k].gap = "nl"})

\* C25: the text balance_lines_recursive returns has at most one line break,
\* so one or two lines, in the hard break of a single word, in the repair of
\* an overflowing line and in the final 50/50 split as well.
C25_AtMostTwoLines ==
    (pc = "balanced")
    => /\ LineBreaks(balanced) <= 1
       /\ Len(Lines(balanced)) \in {1, 2}

\* a text of three words or more with a line break in it, returned by the
\* final 50/50 split with a second line of several words over the cap
C25_Witness ==
    /\ pc = "balanced"
    /\ Len(Split(text)) >= 3
    /\ LineBreaks(text) = 1
    /\ Len(Lines(balanced)) = 2
    /\ Len(Lines(balanced)[2]) >= 2
    /\ LineLen(Lines(balanced)[2]) > MAX_CHARS_PER_LINE

-----------------------------------------------------------------------------
\* Block Splitter claims (SpecSplit)

Splitting == pc = "split_done" /\ Len(split_subs) > 1

\* the sum of the durations of a list of cues
RECURSIVE SumDurations(_)
SumDurations(ss) ==
    IF ss = <<>> THEN 0 ELSE duration_ms(Head(ss)) + SumDurations(Tail(ss))

\* C2: for an input cue with end_ms > start_ms, every cue the Block Splitter
\* returns has end_ms > start_ms, the blocks that follow a clamped block
\* included.
C2_NoZeroDuration ==
    (pc = "split_done" /\ sub.end_ms > sub.start_ms)
    => \A i \in 1..Len(split_subs) : split_subs[i].end_ms > split_subs[i].start_ms

\* C3: when the Block Splitter returns more than one cue, the first starts at
\* the input's start_ms, the last ends at the input's end_ms, and the output
\* durations sum to the input duration.
C3_SpanConservation ==
    Splitting
    => /\ split_subs[1].start_ms = sub.start_ms
       /\ split_subs[Len(split_subs)].end_ms = sub.end_ms
       /\ SumDurations(split_subs) = sub.end_ms - sub.start_ms

\* a split in which a block got the minimum duration and the last block's
\* computed end was not the cue's end
C3_Witness ==
    /\ Splitting
    /\ \E i \in 1..(Len(split_subs) - 1) : duration_ms(split_subs[i]) = MIN_DURATION_MS
    /\ split_subs[Len(split_subs)].end_ms = sub.end_ms
    /\ duration_ms(split_subs[Len(split_subs)]) < MIN_DURATION_MS

\* C4: in the cues the Block Splitter makes of one cue, each block starts
\* where the block before it ends, and no block ends after the input cue.
C4_MonotonicTiming ==
    (pc = "split_done")
    => /\ \A i \in 1..(Len(split_subs) - 1) :
             split_subs[i + 1].start_ms = split_subs[i].end_ms
       /\ \A i \in 1..Len(split_subs) : split_subs[i].end_ms <= sub.end_ms

\* a split in which a block before the last was clamped to the end of the cue
C4_Witness ==
    /\ Splitting
    /\ sub.end_ms > sub.start_ms
    /\ \E i \in 1..(Len(split_subs) - 1) :
          /\ split_subs[i].end_ms = sub.end_ms
          /\ split_subs[i + 1].start_ms = sub.end_ms

\* C10: a cue over the block cap or the maximum duration whose text has
\* fewer than 2 words comes back as the single cue it was.
C10_DegenerateSplit ==
    (pc = "split_done" /\ needs_block_split(sub) /\ Len(Split(sub.text)) < 2)
    => split_subs = <<sub>>

\* a one-word cue over the block cap went through the Block Splitter
C10_Witness ==
    /\ pc = "split_done"
    /\ char_count(sub) > MAX_CHARS_PER_BLOCK
    /\ Len(Split(sub.text)) = 1
    /\ split_subs = <<sub>>

\* a cue lasting 9.0 s whose text has 90 characters and at least two words
NineSecondsNinetyChars ==
    /\ pc = "split_done"
    /\ duration_ms(sub) = 9000
    /\ char_count(sub) = 90
    /\ Len(Split(sub.text)) >= 2

\* C11: for a cue lasting 9.0 s with 90 characters and at least two words,
\* blocks_needed is 2 and the Block Splitter returns exactly 2 cues,
\* contiguous in time, the second ending at the original end_ms.
C11_NineSecondsTwoBlocks ==
    NineSecondsNinetyChars
    => /\ calculate_blocks_needed(sub) = 2
       /\ Len(split_subs) = 2
       /\ split_subs[2].start_ms = split_subs[1].end_ms
       /\ split_subs[2].end_ms = sub.end_ms

\* the partitioned text of block i of the cue that was split
PartitionedText(i) ==
    split_text_for_blocks(sub.text, calculate_blocks_needed(sub))[i]

\* the text ends in '.', '?' or '!'
EndsInTerminal(ws) == ws # <<>> /\ ws[Len(ws)].tail \in {"stop", "dots"}

\* output block i is its partitioned text with "..." added at its end
TrailingAdded(i) ==
    LET out == split_subs[i].text
    IN out[Len(out)].tail = "dots" /\ ~EndsInTerminal(PartitionedText(i))

\* output block i is its partitioned text with "..." added at its start
LeadingAdded(i) ==
    split_subs[i].text[1].lead /\ ~PartitionedText(i)[1].lead

\* C17: in a split into more than one cue, "..." is appended to block i
\* exactly when its partitioned text does not end in '.', '?' or '!', and
\* exactly then "..." is prepended to block i+1; the last block gets no
\* trailing "..." and the first no leading one; nothing else is added.
C17_ContinuityPaired ==
    Splitting
    => LET n == Len(split_subs)
       IN /\ \A i \in 1..(n - 1) :
                /\ TrailingAdded(i) <=> ~EndsInTerminal(PartitionedText(i))
                /\ LeadingAdded(i + 1) <=> ~EndsInTerminal(PartitionedText(i))
          /\ ~TrailingAdded(n)
          /\ ~LeadingAdded(1)
          /\ \A i \in 1..n :
                JoinLen(split_subs[i].text)
                  = JoinLen(PartitionedText(i))
                    + (IF TrailingAdded(i) THEN 3 ELSE 0)
                    + (IF LeadingAdded(i) THEN 3 ELSE 0)

\* a split into three blocks, one boundary marked with "..." on both sides
\* and one boundary after a full stop left unmarked
C17_Witness ==
    /\ Splitting
    /\ Len(split_subs) >= 3
    /\ \E i \in 1..(Len(split_subs) - 1) : TrailingAdded(i) /\ LeadingAdded(i + 1)
    /\ \E i \in 1..(Len(split_subs) - 1) : ~TrailingAdded(i) /\ ~LeadingAdded(i + 1)

-----------------------------------------------------------------------------
\* split_text_for_blocks claims (SpecPartition)

\* the blocks, joined with single spaces, are the normalized text; no block
\* is empty; there are between 1 and num_blocks blocks
LosesNothing ==
    /\ Join(Flatten(parts)) = Join(Split(text))
    /\ \A k \in 1..Len(parts) : parts[k] # <<>>
    /\ Len(parts) >= 1
    /\ Len(parts) <= n_blocks

\* C15 as stated: for every text and every num_blocks >= 1, the blocks of
\* split_text_for_blocks joined with single spaces give the normalized text,
\* no block is empty, and there are between 1 and num_blocks blocks.
C15_PartitionLosesNothing ==
    (pc = "partitioned") => LosesNothing

\* C15 amended: the same for every text that has a word; a text without
\* words gives the single empty block.
C15_PartitionOfWords ==
    (pc = "partitioned")
    => IF Split(text) # <<>> THEN LosesNothing ELSE parts = <<<<>>>>

\* a text cut into the three blocks asked for
C15_Witness ==
    /\ pc = "partitioned"
    /\ Len(parts) = 3
    /\ n_blocks = 3
    /\ Join(Flatten(parts)) = Join(Split(text))

\* C16: when split_text_for_blocks returns more than one block, every block
\* has at least 2 words, the last one included.
C16_MinimumWordsPerBlock ==
    (pc = "partitioned" /\ Len(parts) > 1)
    => \A k \in 1..Len(parts) : Len(parts[k]) >= 2

\* a text of five words or more cut into blocks, the last block of exactly
\* two words
C16_Witness ==
    /\ pc = "partitioned"
    /\ Len(parts) > 1
    /\ Len(Split(text)) >= 5
    /\ Len(parts[Len(parts)]) = 2
    /\ Len(parts[1]) >= 2

-----------------------------------------------------------------------------
\* fix_line_lengths claims (SpecFix)

\* C22: the text fix_line_lengths produces has as many lines as the result of
\* balance_lines_recursive, and every line of it has at most 42 characters
\* whenever every line of the balancer's result has, also when a line ends
\* or begins with "...".
C22_CleanupKeepsLayout ==
    (pc = "fixed")
    => LET balancer == balance_lines_recursive(sub.text)
       IN /\ Len(Lines(balanced)) = Len(Lines(balancer))
          /\ LinesFit(balancer) => LinesFit(balanced)

-----------------------------------------------------------------------------
\* calculate_blocks_needed claims (SpecCount)

\* C21: for a cue with 0 <= start_ms < end_ms that needs a split (more than
\* 84 characters or longer than 8.0 s), calculate_blocks_needed returns at
\* least 2.
C21_SplitNeedsTwoBlocks ==
    (pc = "counted" /\ sub.start_ms >= 0 /\ sub.start_ms < sub.end_ms
       /\ needs_block_split(sub))
    => n_blocks >= 2

\* the least k with k * d >= c
Ceiling(c, d) == CHOOSE k \in 0..c : k * d >= c /\ \A j \in 0..(k - 1) : j * d < c

\* C21 amended: the count is max(ceil(chars/84), floor(duration/8.0) plus 1
\* if the remainder exceeds 0.5 s, 1); it is at least 2 for a cue of more than
\* 84 characters or longer than 8.5 s, and 1 for a cue of at most 84
\* characters whose duration is over 8.0 s but not over 8.5 s.
C21_TwoBlocksPastTolerance ==
    (pc = "counted" /\ sub.start_ms >= 0 /\ sub.start_ms < sub.end_ms)
    => LET chars == char_count(sub)
           d == sub.end_ms - sub.start_ms
           remainder == d - MAX_DURATION_MS * (d \div MAX_DURATION_MS)
       IN /\ n_blocks = Max(Max(Ceiling(chars, MAX_CHARS_PER_BLOCK),
                                 d \div MAX_DURATION_MS
                                   + (IF remainder > 500 THEN 1 ELSE 0)), 1)
          /\ (chars > MAX_CHARS_PER_BLOCK \/ d > MAX_DURATION_MS + 500)
               => n_blocks >= 2
          /\ (needs_block_split(sub) /\ chars <= MAX_CHARS_PER_BLOCK
                 /\ d <= MAX_DURATION_MS + 500)
               => n_blocks = 1

\* a cue of at most 84 characters, 8.501 s long, counted as two blocks
C21_Witness ==
    /\ pc = "counted"
    /\ char_count(sub) <= MAX_CHARS_PER_BLOCK
    /\ sub.end_ms - sub.start_ms = MAX_DURATION_MS + 501
    /\ n_blocks = 2

-----------------------------------------------------------------------------
\* find_best_split_point claims (SpecBoundary)

\* the score of boundary i of the words handed over
BoundaryScore(i) ==
    SplitScore(word_list, i, (JoinLen(word_list) * ratio_pct) \div 100)

\* C18: for a list of n >= 2 words find_best_split_point returns a boundary
\* i in 1..n-1 whose score is the minimum over the boundaries 1..n-1, and the
\* smallest i among the boundaries of that score.
C18_BoundaryChoice ==
    (pc = "boundary_found" /\ Len(word_list) >= 2)
    => /\ boundary \in 1..(Len(word_list) - 1)
       /\ \A j \in 1..(Len(word_list) - 1) :
             /\ BoundaryScore(boundary) <= BoundaryScore(j)
             /\ j < boundary => BoundaryScore(boundary) < BoundaryScore(j)

\* a list in which a later boundary has the same minimum score as the one
\* returned
C18_Witness ==
    /\ pc = "boundary_found"
    /\ Len(word_list) >= 3
    /\ boundary \in 1..(Len(word_list) - 1)
    /\ \E j \in (boundary + 1)..(Len(word_list) - 1) :
          BoundaryScore(j) = BoundaryScore(boundary)

-----------------------------------------------------------------------------
\* Duration Extender claims (SpecExtend)

ExtendedWithSuccessor ==
    pc = "extended" /\ next_sub # NoSub /\ extended_sub.end_ms # sub.end_ms

\* C6 as stated: the new end_ms of a cue with a successor is strictly below
\* next_cue.start_ms - 50.
C6_StrictlyBelowBound ==
    ExtendedWithSuccessor => extended_sub.end_ms < next_sub[1].start_ms - MIN_GAP_MS

\* C6 amended: the new end_ms of a cue with a successor is never above
\* next_cue.start_ms - 50 (it may equal it).
C6_NotPastBound ==
    ExtendedWithSuccessor => extended_sub.end_ms <= next_sub[1].start_ms - MIN_GAP_MS

\* an extension that was clamped to exactly next_cue.start_ms - 50
C6_Witness ==
    ExtendedWithSuccessor /\ extended_sub.end_ms = next_sub[1].start_ms - MIN_GAP_MS

\* C7: the cue is unchanged when it lasts at least 833 ms; otherwise its end
\* becomes start_ms + 833 when there is no successor or that does not pass
\* next.start_ms - 50, else next.start_ms - 50 when that is after the current
\* end, else the cue is unchanged.  A 500 ms cue whose successor starts 2000 ms
\* after its start ends up 833 ms long; a cue 0..500 whose successor starts at
\* 600 ends at 550.
C7_ExtenderResult ==
    (pc = "extended")
    => /\ (duration_ms(sub) >= 833) => extended_sub = sub
       /\ (duration_ms(sub) < 833
             /\ (next_sub = NoSub \/ sub.start_ms + 833 <= next_sub[1].start_ms - 50))
          => extended_sub = [sub EXCEPT !.end_ms = sub.start_ms + 833]
       /\ (duration_ms(sub) < 833 /\ next_sub # NoSub
             /\ sub.start_ms + 833 > next_sub[1].start_ms - 50)
          => extended_sub = IF next_sub[1].start_ms - 50 > sub.end_ms
                            THEN [sub EXCEPT !.end_ms = next_sub[1].start_ms - 50]
                            ELSE sub
       /\ (duration_ms(sub) = 500 /\ next_sub # NoSub
             /\ next_sub[1].start_ms = sub.start_ms + 2000)
          => duration_ms(extended_sub) = 833
       /\ (sub.start_ms = 0 /\ sub.end_ms = 500 /\ next_sub # NoSub
             /\ next_sub[1].start_ms = 600)
          => extended_sub.end_ms = 550

\* the cue 0..500 followed by a cue starting at 600 was extended to 550
C7_Witness ==
    /\ pc = "extended"
    /\ sub.start_ms = 0 /\ sub.end_ms = 500
    /\ next_sub # NoSub /\ next_sub[1].start_ms = 600
    /\ extended_sub.end_ms = 550

\* C23: whatever the cue and its successor (or none), extend_short_duration
\* returns a cue with the index, start_ms and text of its input and an end_ms
\* that is not before the input's end_ms.
C23_ExtenderFrame ==
    (pc = "extended")
    => /\ extended_sub.index = sub.index
       /\ extended_sub.start_ms = sub.start_ms
       /\ extended_sub.text = sub.text
       /\ extended_sub.end_ms >= sub.end_ms

\* a short cue whose successor starts before the cue ends, returned with its
\* end where it was
C23_Witness ==
    /\ pc = "extended"
    /\ duration_ms(sub) < MIN_DURATION_MS
    /\ next_sub # NoSub
    /\ next_sub[1].start_ms < sub.end_ms
    /\ extended_sub.end_ms = sub.end_ms

-----------------------------------------------------------------------------
\* The pipeline (fix_srt_file)

MaxCues == 2

short_text == <<w4, w4>>
two_line_text == <<w20, w8stop, w20>>
crowded_text == <<w20, w20, w30>>
long_text == <<w30, w30, w4, w20, w30, w30>>

PipelineTexts == {short_text, two_line_text, crowded_text, long_text}
PipelineDurations == {500, 3000, 9000}

\* the time between the end of a cue and the start of the next; a negative
\* one makes them overlap
Gaps == {-200, 400}

\* the cue lists of n cues
RECURSIVE CueLists(_)
CueLists(n) ==
    IF n = 0 THEN {<<>>}
    ELSE UNION {
            {Append(cs, Subtitle(Len(cs) + 1, start, start + d, Layout(t, "spaces"))) :
                t \in PipelineTexts, d \in PipelineDurations,
                start \in (IF cs = <<>> THEN {0}
                           ELSE {cs[Len(cs)].end_ms + g : g \in Gaps})} :
            cs \in CueLists(n - 1)}

\* the indices the cues of the file carry: their positions, or numbers that
\* run downwards
InputIndexings == {"position", "descending"}

WithIndices(cs, indexing) ==
    [k \in 1..Len(cs) |->
        [cs[k] EXCEPT !.index = IF indexing = "position" THEN k ELSE 10 - k]]

Init ==
    /\ pc = "phase1"
    /\ \E n \in 1..MaxCues, indexing \in InputIndexings :
          \E cs \in CueLists(n) : subtitles = WithIndices(cs, indexing)
    /\ new_subtitles = <<>>
    /\ balanced_subtitles = <<>>
    /\ extended_subtitles = <<>>
    /\ final_subtitles = <<>>
    /\ overlaps = <<>>
    /\ stats = [NoStats EXCEPT !.original_count = Len(subtitles)]
    /\ pos = 1
    /\ run = 1
    /\ first_final = <<>>
    /\ evaluated = <<>>
    /\ HarnessIdle

\* a loop that leaves for the next phase after its first cue
Advance_Early(n, next_pc) == pos' = 1 /\ pc' = next_pc

\* where the loop goes after position pos of a list of n
Advance(n, next_pc) ==
    IF pos < n THEN pos' = pos + 1 /\ pc' = pc ELSE pos' = 1 /\ pc' = next_pc

\* Phase 1 counting every cue handed to the Block Splitter as split
Phase1_CountsEveryCall ==
    /\ pc = "phase1"
    /\ IF needs_block_split(subtitles[pos])
       THEN \E split_subs_i \in split_subtitle_block(subtitles[pos]) :
               /\ new_subtitles' = new_subtitles \o split_subs_i
               /\ stats' = [stats EXCEPT !.blocks_split = @ + 1]
       ELSE /\ new_subtitles' = Append(new_subtitles, subtitles[pos])
            /\ stats' = stats
    /\ Advance(Len(subtitles), "phase2")
    /\ UNCHANGED <<subtitles, balanced_subtitles, extended_subtitles, final_subtitles,
                   overlaps, run, first_final, evaluated, harness>>

\* Phase 1, one cue: split long blocks
Phase1 ==
    /\ pc = "phase1"
    /\ IF needs_block_split(subtitles[pos])
       THEN \E split_subs_i \in split_subtitle_block(subtitles[pos]) :
               /\ new_subtitles' = new_subtitles \o split_subs_i
               /\ stats' = IF Len(split_subs_i) > 1
                           THEN [stats EXCEPT !.blocks_split = @ + 1] ELSE stats
       ELSE /\ new_subtitles' = Append(new_subtitles, subtitles[pos])
            /\ stats' = stats
    /\ Advance(Len(subtitles), "phase2")
    /\ UNCHANGED <<subtitles, balanced_subtitles, extended_subtitles, final_subtitles,
                   overlaps, run, first_final, evaluated, harness>>

\* Phase 2, one cue: balance lines
Phase2 ==
    /\ pc = "phase2"
    /\ LET fixed_sub == fix_line_lengths(new_subtitles[pos])
       IN /\ balanced_subtitles' = Append(balanced_subtitles, fixed_sub)
          /\ stats' = IF fixed_sub.text # new_subtitles[pos].text
                      THEN [stats EXCEPT !.lines_balanced = @ + 1] ELSE stats
    /\ Advance(Len(new_subtitles), "phase3")
    /\ UNCHANGED <<subtitles, new_subtitles, extended_subtitles, final_subtitles,
                   overlaps, run, first_final, evaluated, harness>>

\* Phase 3, one cue: extend short durations
Phase3 ==
    /\ pc = "phase3"
    /\ LET nxt == IF pos < Len(balanced_subtitles)
                  THEN <<balanced_subtitles[pos + 1]>> ELSE NoSub
           extended == extend_short_duration(balanced_subtitles[pos], nxt)
       IN /\ extended_subtitles' = Append(extended_subtitles, extended)
          /\ stats' = IF extended.end_ms # balanced_subtitles[pos].end_ms
                      THEN [stats EXCEPT !.durations_extended = @ + 1] ELSE stats
    /\ Advance(Len(balanced_subtitles), "phase4")
    /\ UNCHANGED <<subtitles, new_subtitles, balanced_subtitles, final_subtitles,
                   overlaps, run, first_final, evaluated, harness>>

\* Phase 4: renumber
Phase4 ==
    /\ pc = "phase4"
    /\ final_subtitles' = renumber_subtitles(extended_subtitles)
    /\ stats' = [stats EXCEPT !.final_count = Len(extended_subtitles)]
    /\ pc' = "phase5"
    /\ UNCHANGED <<subtitles, new_subtitles, balanced_subtitles, extended_subtitles,
                   overlaps, pos, run, first_final, evaluated, harness>>

\* overlap detection, and the return
Phase5 ==
    /\ pc = "phase5"
    /\ overlaps' = check_overlaps(final_subtitles)
    /\ stats' = [stats EXCEPT !.overlaps_found = Len(check_overlaps(final_subtitles))]
    /\ pc' = "done"
    /\ UNCHANGED <<subtitles, new_subtitles, balanced_subtitles, extended_subtitles,
                   final_subtitles, pos, run, first_final, evaluated, harness>>

\* the pipeline is applied to the file it wrote
Rerun ==
    /\ pc = "done"
    /\ run = 1
    /\ run' = 2
    /\ first_final' = final_subtitles
    /\ subtitles' = parse_srt(write_srt(final_subtitles))
    /\ new_subtitles' = <<>>
    /\ balanced_subtitles' = <<>>
    /\ extended_subtitles' = <<>>
    /\ final_subtitles' = <<>>
    /\ overlaps' = <<>>
    /\ stats' = [NoStats EXCEPT !.original_count = Len(parse_srt(write_srt(final_subtitles)))]
    /\ pos' = 1
    /\ pc' = "phase1"
    /\ UNCHANGED <<evaluated, harness>>

Next == Phase1 \/ Phase2 \/ Phase3 \/ Phase4 \/ Phase5 \/ Rerun

Spec == Init /\ [][Next]_vars

-----------------------------------------------------------------------------
\* Pipeline claims (Spec)

\* ordered by start_ms, and no cue ends after the next one starts
Ordered(ss) ==
    \A k \in 1..(Len(ss) - 1) :
        /\ ss[k].start_ms <= ss[k + 1].start_ms
        /\ ss[k].end_ms <= ss[k + 1].start_ms

\* C5: the pipeline applied to the cues it returned returns the same cues,
\* and blocks_split, lines_balanced and durations_extended are 0 in that
\* second run.
C5_Idempotence ==
    (run = 2 /\ pc = "done")
    => /\ final_subtitles = first_final
       /\ stats.blocks_split = 0
       /\ stats.lines_balanced = 0
       /\ stats.durations_extended = 0

\* C8: when the input cues are ordered and do not overlap, the cues after
\* block splitting, line balancing and duration extension are ordered and do
\* not overlap, and overlaps_found is 0.
C8_PostPipelineOrdering ==
    Ordered(subtitles)
    => /\ (pc \in {"phase4", "phase5", "done"}) => Ordered(extended_subtitles)
       /\ (pc = "done") => stats.overlaps_found = 0

\* a run on ordered input in which a cue was split and a cue was extended up
\* to 50 ms before its successor
C8_Witness ==
    /\ pc = "done"
    /\ run = 1
    /\ Len(subtitles) > 1
    /\ Ordered(subtitles)
    /\ stats.blocks_split > 0
    /\ \E k \in 1..(Len(extended_subtitles) - 1) :
          /\ extended_subtitles[k].end_ms # balanced_subtitles[k].end_ms
          /\ extended_subtitles[k].end_ms = extended_subtitles[k + 1].start_ms - MIN_GAP_MS

\* C12: in the cues the pipeline returns, the cue at position k has index k,
\* whatever indices the input cues carried and for the cues a split made
\* (index 0 until then); renumbering changes no start_ms, end_ms or text.
C12_Renumbering ==
    (pc \in {"phase5", "done"})
    => /\ Len(final_subtitles) = Len(extended_subtitles)
       /\ \A k \in 1..Len(final_subtitles) :
             /\ final_subtitles[k].index = k
             /\ final_subtitles[k].start_ms = extended_subtitles[k].start_ms
             /\ final_subtitles[k].end_ms = extended_subtitles[k].end_ms
             /\ final_subtitles[k].text = extended_subtitles[k].text

\* a run whose input cues did not carry their positions and in which a split
\* made cues of index 0
C12_Witness ==
    /\ pc = "done"
    /\ run = 1
    /\ subtitles[1].index # 1
    /\ \E k \in 1..Len(extended_subtitles) : extended_subtitles[k].index = 0
    /\ \E k \in 1..Len(extended_subtitles) : extended_subtitles[k].index > Len(extended_subtitles)
    /\ \A k \in 1..Len(final_subtitles) : final_subtitles[k].index = k

\* the place of a phase in the order Block Splitter, Line Balancer, Duration
\* Extender, renumbering, overlap detection, return
PhaseRank(p) ==
    CASE p = "phase1" -> 1
      [] p = "phase2" -> 2
      [] p = "phase3" -> 3
      [] p = "phase4" -> 4
      [] p = "phase5" -> 5
      [] p = "done" -> 6

\* the list the phase at p reads
PhaseInput(p) ==
    CASE p = "phase1" -> subtitles
      [] p = "phase2" -> new_subtitles
      [] p = "phase3" -> balanced_subtitles
      [] OTHER -> <<>>

\* a step of one run of the pipeline: it stays in its phase or goes to the
\* next one, leaves a loop only from its last cue, and changes no list an
\* earlier phase read or wrote
OrderedStep ==
    /\ PhaseRank(pc') \in {PhaseRank(pc), PhaseRank(pc) + 1}
    /\ (pc' = pc) => (PhaseRank(pc) <= 3 /\ pos < Len(PhaseInput(pc)) /\ pos' = pos + 1)
    /\ (pc' # pc /\ PhaseRank(pc) <= 3) => pos = Len(PhaseInput(pc))
    /\ (PhaseRank(pc') >= 3) => Len(balanced_subtitles') = Len(new_subtitles')
    /\ (PhaseRank(pc') >= 4) => Len(extended_subtitles') = Len(balanced_subtitles')
    /\ subtitles' = subtitles
    /\ (PhaseRank(pc) >= 2) => new_subtitles' = new_subtitles
    /\ (PhaseRank(pc) >= 3) => balanced_subtitles' = balanced_subtitles
    /\ (PhaseRank(pc) >= 4) => extended_subtitles' = extended_subtitles
    /\ (PhaseRank(pc) >= 5) => final_subtitles' = final_subtitles

\* C13: in every run the phases occur in the order Block Splitter, Line
\* Balancer, Duration Extender, renumbering, overlap detection; a phase starts
\* only after the one before it has processed every cue, no phase runs twice,
\* and no later phase changes what an earlier phase read or wrote.  A new run
\* starts only after the return of the one before.
C13_FixedPhaseOrder ==
    [][IF run' = run THEN OrderedStep ELSE pc = "done" /\ pc' = "phase1"]_vars

\* a run on two cues or more, one of them split, went through every phase
C13_Witness ==
    /\ pc = "done"
    /\ run = 1
    /\ Len(subtitles) >= 2
    /\ Len(new_subtitles) > Len(subtitles)
    /\ Len(balanced_subtitles) = Len(new_subtitles)
    /\ Len(extended_subtitles) = Len(new_subtitles)
    /\ Len(final_subtitles) = Len(new_subtitles)

\* the positions k of a cue list whose cue ends after the next cue starts
OverlapPositions(ss) ==
    {k \in 1..(Len(ss) - 1) : ss[k].end_ms > ss[k + 1].start_ms}

\* C14: overlaps_found is the number of adjacent pairs of the final cues with
\* end_ms[i] > start_ms[i+1], each such pair is reported once by the final
\* indices of its two cues, and the cues returned keep the timings they had
\* after duration extension.
C14_OverlapDetection ==
    (pc = "done")
    => /\ stats.overlaps_found = Cardinality(OverlapPositions(final_subtitles))
       /\ Len(overlaps) = stats.overlaps_found
       /\ {overlaps[j] : j \in 1..Len(overlaps)}
            = {<<final_subtitles[k].index, final_subtitles[k + 1].index>> :
                  k \in OverlapPositions(final_subtitles)}
       /\ Len(final_subtitles) = Len(extended_subtitles)
       /\ \A k \in 1..Len(final_subtitles) :
             /\ final_subtitles[k].start_ms = extended_subtitles[k].start_ms
             /\ final_subtitles[k].end_ms = extended_subtitles[k].end_ms

\* a run that returned three cues or more, an overlapping pair and a pair
\* that only touches among them
C14_Witness ==
    /\ pc = "done"
    /\ Len(final_subtitles) >= 3
    /\ stats.overlaps_found = 1
    /\ \E k \in OverlapPositions(final_subtitles) : overlaps = <<<<k, k + 1>>>>
    /\ \E k \in 1..(Len(final_subtitles) - 1) :
          final_subtitles[k].end_ms = final_subtitles[k + 1].start_ms

\* the number of cues Phase 1 puts in the place of the input cue s
CuesReturned(s) ==
    IF needs_block_split(s)
    THEN CHOOSE n \in {Len(ss) : ss \in split_subtitle_block(s)} : TRUE
    ELSE 1

\* the number of cues split_subtitle_block adds to the cue list cs
RECURSIVE ExtraCues(_)
ExtraCues(cs) ==
    IF cs = <<>> THEN 0 ELSE CuesReturned(Head(cs)) - 1 + ExtraCues(Tail(cs))

\* C20: after a run, blocks_split is the number of input cues for which the
\* Block Splitter returned more than one cue, lines_balanced the number of
\* cues whose text phase 2 changed, durations_extended the number of cues
\* whose end_ms phase 3 changed, and final_count is original_count plus the
\* number of cues the splits added, so final_count >= original_count.
C20_StatisticsMatch ==
    (pc = "done")
    => /\ stats.original_count = Len(subtitles)
       /\ stats.blocks_split
            = Cardinality({k \in 1..Len(subtitles) : CuesReturned(subtitles[k]) > 1})
       /\ Len(balanced_subtitles) = Len(new_subtitles)
       /\ stats.lines_balanced
            = Cardinality({k \in 1..Len(new_subtitles) :
                             balanced_subtitles[k].text # new_subtitles[k].text})
       /\ Len(extended_subtitles) = Len(balanced_subtitles)
       /\ stats.durations_extended
            = Cardinality({k \in 1..Len(balanced_subtitles) :
                             extended_subtitles[k].end_ms # balanced_subtitles[k].end_ms})
       /\ stats.final_count = Len(final_subtitles)
       /\ stats.final_count = stats.original_count + ExtraCues(subtitles)
       /\ stats.final_count >= stats.original_count

\* a run in which a cue was split, a cue handed to the splitter came back
\* whole, a text was rebalanced and a duration was extended
C20_Witness ==
    /\ pc = "done"
    /\ stats.blocks_split = 1
    /\ \E k \in 1..Len(subtitles) :
          needs_block_split(subtitles[k]) /\ CuesReturned(subtitles[k]) = 1
    /\ stats.lines_balanced >= 1
    /\ stats.lines_balanced < Len(new_subtitles)
    /\ stats.durations_extended >= 1
    /\ stats.final_count > stats.original_count

-----------------------------------------------------------------------------
\* Phase 3 with its cues taken in any order (SpecAnyOrder)

MaxOrderCues == 3

OrderDurations == {500, 2000}
OrderGaps == {-200, 100, 400}

\* the balanced cue lists of n cues
RECURSIVE BalancedLists(_)
BalancedLists(n) ==
    IF n = 0 THEN {<<>>}
    ELSE UNION {
            {Append(cs, Subtitle(Len(cs) + 1, start, start + d, Layout(short_text, "spaces"))) :
                d \in OrderDurations,
                start \in (IF cs = <<>> THEN {0}
                           ELSE {cs[Len(cs)].end_ms + g : g \in OrderGaps})} :
            cs \in BalancedLists(n - 1)}

\* the place of a cue that is not extended yet
NoCue == Subtitle(0, 0, 0, NoText)

\* next_sub of position k
Successor(k) ==
    IF k < Len(balanced_subtitles) THEN <<balanced_subtitles[k + 1]>> ELSE NoSub

\* the extended cue put in the next free place, whatever its position
Place_InEvaluationOrder(cues, k, cue) ==
    [cues EXCEPT ![CHOOSE j \in 1..Len(cues) :
                      cues[j] = NoCue /\ \A h \in 1..(j - 1) : cues[h] # NoCue] = cue]

\* the extended cue of position k put in the extended sequence
Place(cues, k, cue) == [cues EXCEPT ![k] = cue]

InitAnyOrder ==
    /\ pc = "phase3_any"
    /\ \E n \in 1..MaxOrderCues : balanced_subtitles \in BalancedLists(n)
    /\ extended_subtitles = [k \in 1..Len(balanced_subtitles) |-> NoCue]
    /\ evaluated = <<>>
    /\ stats = NoStats
    /\ subtitles = <<>>
    /\ new_subtitles = <<>>
    /\ final_subtitles = <<>>
    /\ overlaps = <<>>
    /\ pos = 0
    /\ run = 0
    /\ first_final = <<>>
    /\ HarnessIdle

\* the body of the loop of phase 3 for a position that is not done yet
ExtendAny ==
    /\ pc = "phase3_any"
    /\ \E k \in 1..Len(balanced_subtitles) :
          /\ \A j \in 1..Len(evaluated) : evaluated[j] # k
          /\ LET extended == extend_short_duration(balanced_subtitles[k], Successor(k))
             IN /\ extended_subtitles' = Place(extended_subtitles, k, extended)
                /\ stats' = IF extended.end_ms # balanced_subtitles[k].end_ms
                            THEN [stats EXCEPT !.durations_extended = @ + 1] ELSE stats
          /\ evaluated' = Append(evaluated, k)
    /\ UNCHANGED <<pc, subtitles, new_subtitles, balanced_subtitles, final_subtitles,
                   overlaps, pos, run, first_final, harness>>

NextAnyOrder == ExtendAny

SpecAnyOrder == InitAnyOrder /\ [][NextAnyOrder]_vars

\* the loop of phase 3 from position k on, left to right: the extended cues
\* and the count of the cues whose end changed
RECURSIVE Phase3Loop(_, _, _, _)
Phase3Loop(bs, k, out, count) ==
    IF k > Len(bs) THEN <<out, count>>
    ELSE LET nxt == IF k < Len(bs) THEN <<bs[k + 1]>> ELSE NoSub
             extended == extend_short_duration(bs[k], nxt)
         IN Phase3Loop(bs, k + 1, Append(out, extended),
                       IF extended.end_ms # bs[k].end_ms THEN count + 1 ELSE count)

\* every position of phase 3 is done
AllEvaluated == pc = "phase3_any" /\ Len(evaluated) = Len(balanced_subtitles)

====
